---- MODULE Spec2Model ----
(***************************************************************************)
(* Model of the mittorch supervisor (src/main.rs, src/github.rs,           *)
(* src/config.rs): the startup sequence, the tick loop of main with its    *)
(* crash-recovery and drift-check paths, and the terminal shutdown         *)
(* sequence.  Every fallible call of main is one step whose outcomes are   *)
(* chosen nondeterministically; the supervised processes, the remote       *)
(* branch head and the shutdown signal are the environment.                *)
(***************************************************************************)
EXTENDS Integers, Sequences, FiniteSets, TLC

\* Number of process slots the operating system offers to the supervisor.
MaxProcs == 2

Pids == 1..MaxProcs

\* Commit ids of the tracked branch; EmptySha is String::default().
Hashes == {"aaaaaaaa", "bbbbbbbb"}
EmptySha == ""

\* Exit statuses of a supervised process that ended by itself.
ExitStatuses == {"code0", "code1", "code137"}

VARIABLES
    pc,           \* position of main
    config,       \* mittorch.json as Config::load sees it
    running,      \* the AtomicBool shared with the ctrlc handler
    handler,      \* TRUE once ctrlc::set_handler succeeded
    procs,        \* pid -> "free" | "alive" | exit status of an unreaped process
    child,        \* the Child handle held by main: pid and reaped status
    dir,          \* .data/<repository>: "absent" | "repo" | "broken"
    head,         \* HEAD commit of the checkout (EmptySha if unresolvable)
    remote_head,  \* head of the branch on the remote
    tick,         \* what the current tick has observed so far
    log,          \* effects issued since the last loop-condition check
    synced,       \* history: the remote head the last completed reload
                  \* brought the checkout to (EmptySha once the checkout
                  \* has been touched again)
    prev          \* history: how the previous tick ended ("remove_abort",
                  \* "clone_abort": a reload given up after a failed
                  \* removal or re-clone; "other" otherwise)

vars == <<pc, config, running, handler, procs, child, dir, head,
          remote_head, tick, log, synced, prev>>

----------------------------------------------------------------------------
\* Data

Configs ==
    {[loadable |-> TRUE, start_command |-> s, stop_command |-> t] :
        s \in BOOLEAN, t \in BOOLEAN}
    \cup {[loadable |-> FALSE, start_command |-> FALSE, stop_command |-> FALSE]}

NoChild == [pid |-> 0, status |-> "none"]

FreshTick == [live |-> "unset", status |-> "none", opened |-> "unset",
              local_sha |-> EmptySha, remote |-> "unset",
              remote_sha |-> EmptySha]

Ev(op) == [op |-> op, pid |-> 0]
EvP(op, p) == [op |-> op, pid |-> p]

Ops(l) == [i \in 1..Len(l) |-> l[i].op]

Count(l, S) == Cardinality({i \in 1..Len(l) : l[i].op \in S})

Alive == {p \in Pids : procs[p] = "alive"}

----------------------------------------------------------------------------
\* github.rs

\* prepare_repository: remove an existing directory, then clone.  Each
\* outcome is the resulting directory, its HEAD, the effects and the result.
PrepareRepository(d, h, rh) ==
    LET cloned ==
            {[ok |-> TRUE, dir |-> "repo", head |-> nh, evs |-> <<Ev("clone_ok")>>] :
                nh \in {rh, EmptySha}}
            \cup {[ok |-> FALSE, dir |-> "absent", head |-> EmptySha,
                   evs |-> <<Ev("clone_fail")>>]}
    IN  IF d = "absent"
        THEN cloned
             \cup {[ok |-> FALSE, dir |-> "absent", head |-> EmptySha,
                    evs |-> <<Ev("prepare_abort")>>]}
        ELSE {[ok |-> o.ok, dir |-> o.dir, head |-> o.head,
               evs |-> <<Ev("rm_existing")>> \o o.evs] : o \in cloned}
             \cup {[ok |-> FALSE, dir |-> nd,
                    head |-> IF nd = "repo" THEN h ELSE EmptySha,
                    evs |-> <<Ev("rm_existing_fail"), Ev("prepare_abort")>>] :
                    nd \in {d, "broken"}}

PrepareDone == {"clone_ok", "clone_fail", "prepare_abort"}

\* get_local_commit_hash(&repo).unwrap_or_default()
get_local_commit_hash(h) == h

\* get_latest_remote_sha: an error, the branch head, or an empty string when
\* the body has no commit.sha
get_latest_remote_sha(rh) ==
    {[ok |-> FALSE, sha |-> EmptySha],
     [ok |-> TRUE, sha |-> rh],
     [ok |-> TRUE, sha |-> EmptySha]}

----------------------------------------------------------------------------
\* main.rs helpers

\* fs::remove_dir_all(&repo_path): outcomes as <<ok, dir>>
RemoveDirAll(d) ==
    IF d = "absent"
    THEN {[ok |-> FALSE, dir |-> "absent"]}
    ELSE {[ok |-> TRUE, dir |-> "absent"],
          [ok |-> FALSE, dir |-> d],
          [ok |-> FALSE, dir |-> "broken"]}

HeadOf(nd, h) == IF nd = "repo" THEN h ELSE EmptySha

\* start_process: bash is spawned with the checkout as working directory
Spawnable == IF dir = "absent" THEN {} ELSE {p \in Pids : procs[p] = "free"}

\* Variant: the crash-recovery comparison forgets to compare the hashes.
CrashUpdateNeeded_NoCompare(l, r) == l # EmptySha /\ r # EmptySha

\* the comparison of the crash-recovery path (line 70)
CrashUpdateNeeded(l, r) == l # EmptySha /\ r # EmptySha /\ l # r

\* Variant: only the local hash is checked for emptiness.
InvalidShas_LocalOnly(l, r) == l = EmptySha

\* the guard of the drift check that skips the tick (line 146)
InvalidShas(l, r) == l = EmptySha \/ r = EmptySha

\* Variant: the reload branch is taken whatever the hashes are.
Changed_Always(l, r) == TRUE

\* Variant: the comparison is inverted.
Changed_Inverted(l, r) == l = r

\* the comparison of the drift check (line 151)
Changed(l, r) == l # r

\* child.kill(); child.wait(): the handle's process is reaped
KillWaitProcs(c) ==
    IF c.status = "none" /\ c.pid \in Pids
    THEN [procs EXCEPT ![c.pid] = "free"]
    ELSE procs

KillWaitChild(c) ==
    IF c.status = "none" /\ c.pid \in Pids
    THEN [c EXCEPT !.status = IF procs[c.pid] = "alive" THEN "sig9" ELSE procs[c.pid]]
    ELSE c

\* History bookkeeping at the end of a tick: a reload that ran to the end and
\* left the checkout at the remote head it had observed is remembered; any
\* other change of the checkout forgets it.
FsOps ==
    {"remove_ok", "remove_fail", "rm_existing", "rm_existing_fail",
     "clone_ok", "clone_fail", "prepare_abort"}

SyncedAfter(t, l, h, old) ==
    IF /\ Len(l) = 4
       /\ Ops(l)[2] = "remove_ok" /\ Ops(l)[3] = "clone_ok"
       /\ Ops(l)[4] = "start_ok"
       /\ t.live = "alive" /\ t.remote = "ok"
       /\ h # EmptySha /\ h = t.remote_sha
    THEN h
    ELSE IF Count(l, FsOps) > 0 THEN EmptySha ELSE old

\* History bookkeeping at the end of a tick: did the tick give a reload up
\* (process found alive, two distinct non-empty hashes) at the removal or at
\* the re-clone
PrevAfter(t, l) ==
    IF /\ t.live = "alive" /\ t.remote = "ok" /\ Len(l) >= 2
       /\ t.local_sha # EmptySha /\ t.remote_sha # EmptySha
       /\ t.local_sha # t.remote_sha
    THEN IF l[Len(l)].op = "remove_fail" THEN "remove_abort"
         ELSE IF l[Len(l)].op \in {"clone_fail", "prepare_abort"}
              THEN "clone_abort"
         ELSE "other"
    ELSE "other"

----------------------------------------------------------------------------
Init ==
    /\ pc = "load"
    /\ config \in Configs
    /\ running = TRUE
    /\ handler = FALSE
    /\ procs = [p \in Pids |-> "free"]
    /\ child = NoChild
    /\ \E d \in {"absent", "repo", "broken"} : \E h \in Hashes \cup {EmptySha} :
          /\ dir = d
          /\ head = HeadOf(d, h)
    /\ remote_head \in Hashes
    /\ tick = FreshTick
    /\ log = <<>>
    /\ synced = EmptySha
    /\ prev = "other"

----------------------------------------------------------------------------
\* Startup (main.rs 17-45)

LoadConfig ==
    /\ pc = "load"
    /\ pc' = IF config.loadable THEN "init_clone" ELSE "exit_err"
    /\ UNCHANGED <<config, running, handler, procs, child, dir, head,
                   remote_head, tick, log, synced, prev>>

InitialClone ==
    /\ pc = "init_clone"
    /\ \E o \in PrepareRepository(dir, head, remote_head) :
          /\ dir' = o.dir
          /\ head' = o.head
          /\ log' = log \o o.evs
    /\ pc' = "init_start"
    /\ UNCHANGED <<config, running, handler, procs, child, remote_head, tick,
                   synced, prev>>

\* Variant: a missing start command is skipped instead of being an error.
InitialStart_SkipsMissing ==
    /\ pc = "init_start"
    /\ IF config.start_command
       THEN \/ \E p \in Spawnable :
                 /\ procs' = [procs EXCEPT ![p] = "alive"]
                 /\ child' = [pid |-> p, status |-> "none"]
                 /\ log' = Append(log, EvP("start_ok", p))
                 /\ pc' = "set_handler"
            \/ /\ log' = Append(log, Ev("start_fail"))
               /\ pc' = "exit_err"
               /\ UNCHANGED <<procs, child>>
       ELSE /\ pc' = "set_handler"
            /\ UNCHANGED <<procs, child, log>>
    /\ UNCHANGED <<config, running, handler, dir, head, remote_head, tick,
                   synced, prev>>

InitialStart ==
    /\ pc = "init_start"
    /\ IF config.start_command
       THEN \/ \E p \in Spawnable :
                 /\ procs' = [procs EXCEPT ![p] = "alive"]
                 /\ child' = [pid |-> p, status |-> "none"]
                 /\ log' = Append(log, EvP("start_ok", p))
                 /\ pc' = "set_handler"
            \/ /\ log' = Append(log, Ev("start_fail"))
               /\ pc' = "exit_err"
               /\ UNCHANGED <<procs, child>>
       ELSE /\ pc' = "exit_err"
            /\ UNCHANGED <<procs, child, log>>
    /\ UNCHANGED <<config, running, handler, dir, head, remote_head, tick,
                   synced, prev>>

SetHandler ==
    /\ pc = "set_handler"
    /\ \/ handler' = TRUE /\ pc' = "loop_cond"
       \/ handler' = FALSE /\ pc' = "exit_err"
    /\ UNCHANGED <<config, running, procs, child, dir, head, remote_head,
                   tick, log, synced, prev>>

----------------------------------------------------------------------------
\* Tick loop (main.rs 47-192)

LoopCond ==
    /\ pc = "loop_cond"
    /\ pc' = IF running THEN "sleep" ELSE "shutdown"
    /\ tick' = FreshTick
    /\ log' = <<>>
    /\ synced' = SyncedAfter(tick, log, head, synced)
    /\ prev' = PrevAfter(tick, log)
    /\ UNCHANGED <<config, running, handler, procs, child, dir, head,
                   remote_head>>

\* Variant: the flag is looked at again when the interval wait is over.
Sleep_ChecksFlag ==
    /\ pc = "sleep"
    /\ pc' = IF running THEN "try_wait" ELSE "shutdown"
    /\ UNCHANGED <<config, running, handler, procs, child, dir, head,
                   remote_head, tick, log, synced, prev>>

Sleep ==
    /\ pc = "sleep"
    /\ pc' = "try_wait"
    /\ UNCHANGED <<config, running, handler, procs, child, dir, head,
                   remote_head, tick, log, synced, prev>>

TryWait ==
    /\ pc = "try_wait"
    /\ \/ /\ pc' = "exit_err"
          /\ UNCHANGED <<procs, child, tick>>
       \/ /\ child.status = "none"
          /\ procs[child.pid] = "alive"
          /\ tick' = [tick EXCEPT !.live = "alive"]
          /\ pc' = "open_repo"
          /\ UNCHANGED <<procs, child>>
       \/ /\ child.status = "none"
          /\ procs[child.pid] # "alive"
          /\ child' = [child EXCEPT !.status = procs[child.pid]]
          /\ procs' = [procs EXCEPT ![child.pid] = "free"]
          /\ tick' = [tick EXCEPT !.live = "exited",
                                   !.status = procs[child.pid]]
          /\ pc' = "crash_open"
       \/ /\ child.status # "none"
          /\ tick' = [tick EXCEPT !.live = "exited",
                                   !.status = child.status]
          /\ pc' = "crash_open"
          /\ UNCHANGED <<procs, child>>
    /\ UNCHANGED <<config, running, handler, dir, head, remote_head, log,
                   synced, prev>>

\* --- crash or exit handling (main.rs 51-111)

\* Variant: a repository that cannot be opened ends the tick without restart.
CrashOpen_SkipsRestart ==
    /\ pc = "crash_open"
    /\ IF dir = "repo"
       THEN /\ tick' = [tick EXCEPT !.opened = "ok",
                                    !.local_sha = get_local_commit_hash(head)]
            /\ pc' = "crash_remote"
       ELSE /\ tick' = [tick EXCEPT !.opened = "err"]
            /\ pc' = "loop_cond"
    /\ UNCHANGED <<config, running, handler, procs, child, dir, head,
                   remote_head, log, synced, prev>>

CrashOpen ==
    /\ pc = "crash_open"
    /\ IF dir = "repo"
       THEN /\ tick' = [tick EXCEPT !.opened = "ok",
                                    !.local_sha = get_local_commit_hash(head)]
            /\ pc' = "crash_remote"
       ELSE /\ tick' = [tick EXCEPT !.opened = "err"]
            /\ pc' = "crash_restart"
    /\ UNCHANGED <<config, running, handler, procs, child, dir, head,
                   remote_head, log, synced, prev>>

CrashRemote ==
    /\ pc = "crash_remote"
    /\ \E r \in get_latest_remote_sha(remote_head) :
          IF r.ok
          THEN /\ tick' = [tick EXCEPT !.remote = "ok", !.remote_sha = r.sha]
               /\ pc' = IF CrashUpdateNeeded(tick.local_sha, r.sha)
                        THEN "crash_remove" ELSE "crash_restart"
          ELSE /\ tick' = [tick EXCEPT !.remote = "err"]
               /\ pc' = "crash_restart"
    /\ UNCHANGED <<config, running, handler, procs, child, dir, head,
                   remote_head, log, synced, prev>>

\* Variant: a failed removal still goes on to the re-clone.
CrashRemove_NoElse ==
    /\ pc = "crash_remove"
    /\ \E o \in RemoveDirAll(dir) :
          /\ dir' = o.dir
          /\ head' = HeadOf(o.dir, head)
          /\ log' = Append(log, Ev(IF o.ok THEN "remove_ok" ELSE "remove_fail"))
          /\ pc' = "crash_clone"
    /\ UNCHANGED <<config, running, handler, procs, child, remote_head, tick,
                   synced, prev>>

CrashRemove ==
    /\ pc = "crash_remove"
    /\ \E o \in RemoveDirAll(dir) :
          /\ dir' = o.dir
          /\ head' = HeadOf(o.dir, head)
          /\ log' = Append(log, Ev(IF o.ok THEN "remove_ok" ELSE "remove_fail"))
          /\ pc' = IF o.ok THEN "crash_clone" ELSE "crash_restart"
    /\ UNCHANGED <<config, running, handler, procs, child, remote_head, tick,
                   synced, prev>>

CrashClone ==
    /\ pc = "crash_clone"
    /\ \E o \in PrepareRepository(dir, head, remote_head) :
          /\ dir' = o.dir
          /\ head' = o.head
          /\ log' = log \o o.evs
    /\ pc' = "crash_restart"
    /\ UNCHANGED <<config, running, handler, procs, child, remote_head, tick,
                   synced, prev>>

\* Variant: the `continue` that ends crash handling is missing.
CrashRestart_NoContinue ==
    /\ pc = "crash_restart"
    /\ IF config.start_command
       THEN \/ \E p \in Spawnable :
                 /\ procs' = [procs EXCEPT ![p] = "alive"]
                 /\ child' = [pid |-> p, status |-> "none"]
                 /\ log' = Append(log, EvP("start_ok", p))
                 /\ pc' = "open_repo"
            \/ /\ log' = Append(log, Ev("start_fail"))
               /\ pc' = "exit_err"
               /\ UNCHANGED <<procs, child>>
       ELSE /\ pc' = "open_repo"
            /\ UNCHANGED <<procs, child, log>>
    /\ UNCHANGED <<config, running, handler, dir, head, remote_head, tick,
                   synced, prev>>

CrashRestart ==
    /\ pc = "crash_restart"
    /\ IF config.start_command
       THEN \/ \E p \in Spawnable :
                 /\ procs' = [procs EXCEPT ![p] = "alive"]
                 /\ child' = [pid |-> p, status |-> "none"]
                 /\ log' = Append(log, EvP("start_ok", p))
                 /\ pc' = "loop_cond"
            \/ /\ log' = Append(log, Ev("start_fail"))
               /\ pc' = "exit_err"
               /\ UNCHANGED <<procs, child>>
       ELSE /\ pc' = "loop_cond"
            /\ UNCHANGED <<procs, child, log>>
    /\ UNCHANGED <<config, running, handler, dir, head, remote_head, tick,
                   synced, prev>>

\* --- regular update check (main.rs 113-191)

OpenRepo ==
    /\ pc = "open_repo"
    /\ IF dir = "repo"
       THEN /\ tick' = [tick EXCEPT !.opened = "ok",
                                    !.local_sha = get_local_commit_hash(head)]
            /\ pc' = "remote"
       ELSE /\ tick' = [tick EXCEPT !.opened = "err"]
            /\ pc' = "retry_clone"
    /\ UNCHANGED <<config, running, handler, procs, child, dir, head,
                   remote_head, log, synced, prev>>

\* Variant: the `continue` after the retried clone is missing.
RetryClone_NoContinue ==
    /\ pc = "retry_clone"
    /\ \E o \in PrepareRepository(dir, head, remote_head) :
          /\ dir' = o.dir
          /\ head' = o.head
          /\ log' = log \o o.evs
    /\ pc' = "remote"
    /\ UNCHANGED <<config, running, handler, procs, child, remote_head, tick,
                   synced, prev>>

RetryClone ==
    /\ pc = "retry_clone"
    /\ \E o \in PrepareRepository(dir, head, remote_head) :
          /\ dir' = o.dir
          /\ head' = o.head
          /\ log' = log \o o.evs
    /\ pc' = "loop_cond"
    /\ UNCHANGED <<config, running, handler, procs, child, remote_head, tick,
                   synced, prev>>

RemoteCheck ==
    /\ pc = "remote"
    /\ \E r \in get_latest_remote_sha(remote_head) :
          IF r.ok
          THEN /\ tick' = [tick EXCEPT !.remote = "ok", !.remote_sha = r.sha]
               /\ pc' = IF InvalidShas(tick.local_sha, r.sha) THEN "loop_cond"
                        ELSE IF Changed(tick.local_sha, r.sha) THEN "stop"
                        ELSE "loop_cond"
          ELSE /\ tick' = [tick EXCEPT !.remote = "err"]
               /\ pc' = "loop_cond"
    /\ UNCHANGED <<config, running, handler, procs, child, dir, head,
                   remote_head, log, synced, prev>>

\* run_command("stop", ...) then sleep(1), or kill and wait (main.rs 159-166).
\* The stop command is an arbitrary shell command: by the time it has exited
\* and the second has passed, the supervised process has ended or is still
\* running.
\* Variant: without a stop command the process is not killed either.
StopOrKill_NoKill ==
    /\ pc = "stop"
    /\ IF config.stop_command
       THEN \/ /\ log' = Append(log, Ev("stop_spawn_fail"))
               /\ pc' = "exit_err"
               /\ UNCHANGED <<procs, child>>
            \/ /\ log' = Append(log, Ev("stop_done"))
               /\ pc' = "remove"
               /\ \/ UNCHANGED procs
                  \/ /\ child.pid \in Alive
                     /\ \E s \in ExitStatuses :
                           procs' = [procs EXCEPT ![child.pid] = s]
               /\ UNCHANGED child
       ELSE /\ log' = Append(log, EvP("kill_wait", child.pid))
            /\ pc' = "remove"
            /\ UNCHANGED <<procs, child>>
    /\ UNCHANGED <<config, running, handler, dir, head, remote_head, tick,
                   synced, prev>>

StopOrKill ==
    /\ pc = "stop"
    /\ IF config.stop_command
       THEN \/ /\ log' = Append(log, Ev("stop_spawn_fail"))
               /\ pc' = "exit_err"
               /\ UNCHANGED <<procs, child>>
            \/ /\ log' = Append(log, Ev("stop_done"))
               /\ pc' = "remove"
               /\ \/ UNCHANGED procs
                  \/ /\ child.pid \in Alive
                     /\ \E s \in ExitStatuses :
                           procs' = [procs EXCEPT ![child.pid] = s]
               /\ UNCHANGED child
       ELSE /\ log' = Append(log, EvP("kill_wait", child.pid))
            /\ procs' = KillWaitProcs(child)
            /\ child' = KillWaitChild(child)
            /\ pc' = "remove"
    /\ UNCHANGED <<config, running, handler, dir, head, remote_head, tick,
                   synced, prev>>

\* Variant: the `continue` after a failed removal is missing.
RemoveOld_NoContinue ==
    /\ pc = "remove"
    /\ \E o \in RemoveDirAll(dir) :
          /\ dir' = o.dir
          /\ head' = HeadOf(o.dir, head)
          /\ log' = Append(log, Ev(IF o.ok THEN "remove_ok" ELSE "remove_fail"))
          /\ pc' = "reclone"
    /\ UNCHANGED <<config, running, handler, procs, child, remote_head, tick,
                   synced, prev>>

RemoveOld ==
    /\ pc = "remove"
    /\ \E o \in RemoveDirAll(dir) :
          /\ dir' = o.dir
          /\ head' = HeadOf(o.dir, head)
          /\ log' = Append(log, Ev(IF o.ok THEN "remove_ok" ELSE "remove_fail"))
          /\ pc' = IF o.ok THEN "reclone" ELSE "loop_cond"
    /\ UNCHANGED <<config, running, handler, procs, child, remote_head, tick,
                   synced, prev>>

\* Variant: the `continue` after a failed re-clone is missing.
Reclone_NoContinue ==
    /\ pc = "reclone"
    /\ \E o \in PrepareRepository(dir, head, remote_head) :
          /\ dir' = o.dir
          /\ head' = o.head
          /\ log' = log \o o.evs
          /\ pc' = "restart"
    /\ UNCHANGED <<config, running, handler, procs, child, remote_head, tick,
                   synced, prev>>

Reclone ==
    /\ pc = "reclone"
    /\ \E o \in PrepareRepository(dir, head, remote_head) :
          /\ dir' = o.dir
          /\ head' = o.head
          /\ log' = log \o o.evs
          /\ pc' = IF o.ok THEN "restart" ELSE "loop_cond"
    /\ UNCHANGED <<config, running, handler, procs, child, remote_head, tick,
                   synced, prev>>

Restart ==
    /\ pc = "restart"
    /\ IF config.start_command
       THEN \/ \E p \in Spawnable :
                 /\ procs' = [procs EXCEPT ![p] = "alive"]
                 /\ child' = [pid |-> p, status |-> "none"]
                 /\ log' = Append(log, EvP("start_ok", p))
                 /\ pc' = "loop_cond"
            \/ /\ log' = Append(log, Ev("start_fail"))
               /\ pc' = "exit_err"
               /\ UNCHANGED <<procs, child>>
       ELSE /\ pc' = "loop_cond"
            /\ UNCHANGED <<procs, child, log>>
    /\ UNCHANGED <<config, running, handler, dir, head, remote_head, tick,
                   synced, prev>>

\* --- terminal shutdown sequence (main.rs 194-199)

\* Variant: the shutdown sequence also cleans the checkout up.
Shutdown_Cleanup ==
    /\ pc = "shutdown"
    /\ log' = Append(log, EvP("kill_wait", child.pid))
    /\ procs' = KillWaitProcs(child)
    /\ child' = KillWaitChild(child)
    /\ dir' = "absent"
    /\ head' = EmptySha
    /\ pc' = "exit_ok"
    /\ UNCHANGED <<config, running, handler, remote_head, tick, synced, prev>>

Shutdown ==
    /\ pc = "shutdown"
    /\ log' = Append(log, EvP("kill_wait", child.pid))
    /\ procs' = KillWaitProcs(child)
    /\ child' = KillWaitChild(child)
    /\ pc' = "exit_ok"
    /\ UNCHANGED <<config, running, handler, dir, head, remote_head, tick,
                   synced, prev>>

----------------------------------------------------------------------------
\* Environment

\* the ctrlc handler (main.rs 42-45)
Signal ==
    /\ handler
    /\ running
    /\ pc \notin {"exit_ok", "exit_err"}
    /\ running' = FALSE
    /\ UNCHANGED <<pc, config, handler, procs, child, dir, head, remote_head,
                   tick, log, synced, prev>>

\* a supervised process ends by itself
ProcessExit ==
    /\ \E p \in Alive : \E s \in ExitStatuses :
          procs' = [procs EXCEPT ![p] = s]
    /\ UNCHANGED <<pc, config, running, handler, child, dir, head,
                   remote_head, tick, log, synced, prev>>

\* the remote branch advances
Push ==
    /\ pc \notin {"exit_ok", "exit_err"}
    /\ \E h \in Hashes \ {remote_head} : remote_head' = h
    /\ UNCHANGED <<pc, config, running, handler, procs, child, dir, head,
                   tick, log, synced, prev>>

----------------------------------------------------------------------------
Next ==
    \/ LoadConfig
    \/ InitialClone
    \/ InitialStart
    \/ SetHandler
    \/ LoopCond
    \/ Sleep
    \/ TryWait
    \/ CrashOpen
    \/ CrashRemote
    \/ CrashRemove
    \/ CrashClone
    \/ CrashRestart
    \/ OpenRepo
    \/ RetryClone
    \/ RemoteCheck
    \/ StopOrKill
    \/ RemoveOld
    \/ Reclone
    \/ Restart
    \/ Shutdown
    \/ Signal
    \/ ProcessExit
    \/ Push

Spec == Init /\ [][Next]_vars

TypeOK ==
    /\ config \in Configs
    /\ running \in BOOLEAN
    /\ handler \in BOOLEAN
    /\ procs \in [Pids -> {"free", "alive"} \cup ExitStatuses]
    /\ child.pid \in Pids \cup {0}
    /\ dir \in {"absent", "repo", "broken"}
    /\ head \in Hashes \cup {EmptySha}
    /\ remote_head \in Hashes

----------------------------------------------------------------------------
\* Positions of main inside the body of the tick loop
TickPcs ==
    {"sleep", "try_wait", "crash_open", "crash_remote", "crash_remove",
     "crash_clone", "crash_restart", "open_repo", "retry_clone", "remote",
     "stop", "remove", "reclone", "restart"}

ShutdownPcs == {"shutdown", "exit_ok"}

----------------------------------------------------------------------------
\* C1: at most one supervised process started by the supervisor is alive in
\* every reachable state, on the reload path with and without a stop command.
C1_AtMostOneAlive == Cardinality(Alive) <= 1

\* C2: once the initial start has succeeded, no failure inside a tick ends
\* the supervisor: no step taken inside the tick loop leads to the error exit.
C2_TickErrorsNeverExit == [][(pc \in TickPcs) => ~(pc' = "exit_err")]_vars

\* C3: when the loop condition sees the shutdown flag set, no further tick
\* runs, exactly one kill-and-wait is issued, against the current handle, the
\* checkout is neither removed nor cloned, and main returns Ok (exit code 0).
C3_Shutdown ==
    /\ [](pc = "shutdown" => log = <<>> /\ ~running)
    /\ [](pc = "exit_ok" =>
            /\ Ops(log) = <<"kill_wait">>
            /\ log[1].pid = child.pid
            /\ child.status # "none"
            /\ procs[child.pid] # "alive")
    /\ [][/\ (pc = "loop_cond" /\ ~running => pc' \in {"loop_cond", "shutdown"})
          /\ (pc \in ShutdownPcs =>
                pc' \in ShutdownPcs /\ dir' = dir /\ head' = head)
          /\ (pc' = "exit_ok" => pc \in ShutdownPcs)]_vars

C3_Witness ==
    /\ pc = "exit_ok"
    /\ Ops(log) = <<"kill_wait">>
    /\ child.status = "sig9"
    /\ dir = "repo"

----------------------------------------------------------------------------
\* Vocabulary of the tick-level claims

StopOps == {"stop_done", "stop_spawn_fail"}
RemoveOps == {"remove_ok", "remove_fail"}
PrepareOps ==
    {"rm_existing", "rm_existing_fail", "clone_ok", "clone_fail",
     "prepare_abort"}
StartOps == {"start_ok", "start_fail"}

ReloadPcs ==
    {"stop", "remove", "reclone", "restart", "crash_remove", "crash_clone"}

Distinct(l, r) == l # EmptySha /\ r # EmptySha /\ l # r

\* the tick found the process alive and saw two distinct non-empty hashes
DriftSeen ==
    /\ tick.live = "alive" /\ tick.opened = "ok" /\ tick.remote = "ok"
    /\ Distinct(tick.local_sha, tick.remote_sha)

\* the tick found the process alive and saw two equal non-empty hashes
SteadyTick ==
    /\ tick.live = "alive" /\ tick.opened = "ok" /\ tick.remote = "ok"
    /\ tick.local_sha = tick.remote_sha /\ tick.local_sha # EmptySha

\* what a tick that ends as a SteadyTick has observed on its way there
SteadyPrefix(t) ==
    /\ t.live \in {"unset", "alive"}
    /\ t.opened \in {"unset", "ok"}
    /\ \/ t.remote = "unset"
       \/ /\ t.remote = "ok"
          /\ t.local_sha = t.remote_sha /\ t.local_sha # EmptySha

\* a hash resolved empty, or the remote lookup failed
Inconclusive ==
    \/ tick.opened = "ok" /\ tick.local_sha = EmptySha
    \/ tick.remote = "ok" /\ tick.remote_sha = EmptySha
    \/ tick.remote = "err"

CrashTickCompared ==
    tick.live = "exited" /\ tick.opened = "ok" /\ tick.remote = "ok"

TickEnded == pc \in {"loop_cond", "exit_err"}

----------------------------------------------------------------------------
\* C4: in a tick that detects drift with the process alive and a stop command
\* configured, the stop command has run to completion before the removal
\* begins, the removal has succeeded before the re-clone begins, and the
\* re-clone has succeeded before a start is issued; no start without all three.
C4_ReloadOrdering ==
    (DriftSeen /\ config.stop_command) =>
        \A i \in 1..Len(log) :
            /\ log[i].op # "kill_wait"
            /\ log[i].op \in StopOps => i = 1
            /\ log[i].op \in RemoveOps => i = 2 /\ log[1].op = "stop_done"
            /\ log[i].op \in PrepareOps => i = 3 /\ log[2].op = "remove_ok"
            /\ log[i].op \in StartOps => i = 4 /\ log[3].op = "clone_ok"

C4_Witness ==
    /\ DriftSeen /\ config.stop_command
    /\ pc = "loop_cond"
    /\ Ops(log) = <<"stop_done", "remove_ok", "clone_ok", "start_ok">>

\* C5: in a tick where the local or the remote hash resolves empty, or the
\* remote lookup fails, neither path runs the stop command, kills the
\* process, removes the checkout or clones; the reload and the crash update
\* are entered only with two non-empty distinct hashes.
C5_InconclusiveTick ==
    /\ Inconclusive =>
          /\ pc \notin ReloadPcs
          /\ \A i \in 1..Len(log) :
                log[i].op \notin
                    StopOps \cup {"kill_wait"} \cup RemoveOps \cup PrepareOps
    /\ pc \in ReloadPcs =>
          /\ tick.opened = "ok" /\ tick.remote = "ok"
          /\ Distinct(tick.local_sha, tick.remote_sha)

C5_Witness ==
    /\ pc = "loop_cond"
    /\ tick.live = "alive" /\ tick.remote = "ok"
    /\ tick.local_sha # EmptySha /\ tick.remote_sha = EmptySha
    /\ log = <<>>

\* C6: a tick that finds the process alive, opens the repository and sees
\* equal non-empty hashes issues no start, stop, kill, removal or clone, and
\* none of its steps changes the process handle, the processes or the checkout.
C6_Idempotent ==
    /\ [](SteadyTick => pc = "loop_cond" /\ log = <<>>)
    /\ [][(pc \in TickPcs \cup {"loop_cond"} /\ SteadyPrefix(tick')) =>
            /\ child' = child /\ dir' = dir /\ head' = head
            /\ \A p \in Pids :
                  /\ procs'[p] = "alive" => procs[p] = "alive"
                  /\ procs'[p] = "free" => procs[p] = "free"]_vars

C6_Witness ==
    /\ SteadyTick /\ pc = "loop_cond" /\ log = <<>>
    /\ procs[child.pid] = "alive"

\* C7: a pair of distinct non-empty hashes seen with the process alive always
\* starts a reload (stop command or kill is the first effect of the tick),
\* and after a reload that brought the checkout to the remote head it had
\* seen, a tick that sees the same remote head again starts no reload.
C7_ReloadOncePerPair ==
    /\ DriftSeen =>
          /\ pc \in {"stop", "remove", "reclone", "restart", "loop_cond",
                      "exit_err"}
          /\ pc # "stop" =>
                Len(log) >= 1 /\ log[1].op \in StopOps \cup {"kill_wait"}
    /\ (/\ synced # EmptySha
        /\ tick.live = "alive" /\ tick.remote = "ok"
        /\ tick.remote_sha = synced) =>
          /\ tick.local_sha = synced
          /\ pc = "loop_cond"
          /\ log = <<>>

C7_Witness ==
    /\ synced # EmptySha
    /\ tick.live = "alive" /\ tick.remote = "ok"
    /\ tick.remote_sha = synced
    /\ pc = "loop_cond"

\* C8 as stated: a crash tick that opens the repository and sees two distinct
\* non-empty hashes ends having removed the checkout, re-cloned it and
\* restarted the process, each exactly once, in this order.
C8_AsStated ==
    (CrashTickCompared /\ Distinct(tick.local_sha, tick.remote_sha)
        /\ TickEnded) =>
        /\ Len(log) = 3
        /\ log[1].op \in RemoveOps
        /\ log[2].op \in PrepareDone
        /\ log[3].op \in StartOps

\* C8: in such a tick the removal is attempted exactly once, the re-clone is
\* attempted exactly once if the removal succeeded and not at all if it
\* failed, and then exactly one start of the process is attempted, in this
\* order.
C8_CrashThenUpdate ==
    (CrashTickCompared /\ Distinct(tick.local_sha, tick.remote_sha)) =>
        /\ pc \in {"crash_remove", "crash_clone", "crash_restart",
                    "loop_cond", "exit_err"}
        /\ pc = "crash_remove" => log = <<>>
        /\ pc = "crash_clone" => Ops(log) = <<"remove_ok">>
        /\ pc = "crash_restart" =>
              \/ Ops(log) = <<"remove_fail">>
              \/ /\ Len(log) = 2
                 /\ log[1].op = "remove_ok" /\ log[2].op \in PrepareDone
        /\ TickEnded =>
              \/ /\ Len(log) = 2
                 /\ log[1].op = "remove_fail" /\ log[2].op \in StartOps
              \/ /\ Len(log) = 3
                 /\ log[1].op = "remove_ok" /\ log[2].op \in PrepareDone
                 /\ log[3].op \in StartOps

C8_Witness ==
    /\ CrashTickCompared
    /\ tick.status = "code1"
    /\ tick.local_sha = "aaaaaaaa" /\ tick.remote_sha = "bbbbbbbb"
    /\ pc = "loop_cond"
    /\ Ops(log) = <<"remove_ok", "clone_ok", "start_ok">>

\* C9: a crash tick that opens the repository and sees equal hashes makes
\* exactly one start of the process and neither removes nor clones, whatever
\* the exit status was.
C9_CrashNoUpdate ==
    (CrashTickCompared /\ tick.local_sha = tick.remote_sha) =>
        /\ pc \in {"crash_restart", "loop_cond", "exit_err"}
        /\ pc = "crash_restart" => log = <<>>
        /\ TickEnded => Len(log) = 1 /\ log[1].op \in StartOps

C9_Witness ==
    /\ CrashTickCompared /\ tick.local_sha = tick.remote_sha
    /\ tick.status = "code137"
    /\ pc = "loop_cond"
    /\ Ops(log) = <<"start_ok">>
    /\ procs[child.pid] = "alive"

\* C10: with no start command configured main ends with an error after
\* exactly one call of prepare_repository, whatever its result, without
\* starting a process, installing the signal handler or entering the loop.
C10_MissingStartCommand ==
    (config.loadable /\ ~config.start_command) =>
        /\ pc \in {"load", "init_clone", "init_start", "exit_err"}
        /\ ~handler
        /\ child = NoChild /\ Alive = {}
        /\ Count(log, StartOps) = 0
        /\ Count(log, PrepareDone) =
              (IF pc \in {"load", "init_clone"} THEN 0 ELSE 1)

C10_Witness ==
    /\ config.loadable /\ ~config.start_command
    /\ pc = "exit_err"
    /\ Count(log, {"clone_fail"}) = 1
    /\ ~handler

----------------------------------------------------------------------------
\* Positions of the crash-recovery path and of the drift-check path
CrashPcs ==
    {"crash_open", "crash_remote", "crash_remove", "crash_clone",
     "crash_restart"}

DriftPcs ==
    {"open_repo", "retry_clone", "remote", "stop", "remove", "reclone",
     "restart"}

\* C11 as stated: when the shutdown flag is set during the interval wait, the
\* tick that follows the wait does not run its liveness check (nor anything
\* after it); the loop goes straight to the terminal shutdown sequence.
C11_AsStated ==
    [][(pc = "sleep" /\ ~running) => ~(pc' = "try_wait")]_vars

\* C11: the flag is read by the loop condition only, which is evaluated
\* before the interval wait: when the wait is over the liveness check runs
\* whether or not the flag was set meanwhile, and the terminal shutdown
\* sequence is entered only from the loop condition that finds the flag set.
C11_FlagReadAtLoopCondition ==
    [][/\ (pc' = "shutdown" /\ pc # "shutdown") =>
             (pc = "loop_cond" /\ ~running)
       /\ (pc = "sleep" /\ pc' # pc) => pc' = "try_wait"
       /\ (pc = "loop_cond" /\ pc' # pc) =>
             pc' = (IF running THEN "sleep" ELSE "shutdown")]_vars

C11_Witness ==
    /\ ~running
    /\ pc \in CrashPcs \cup DriftPcs
    /\ tick.live # "unset"

LastOp(l) == IF Len(l) = 0 THEN "none" ELSE l[Len(l)].op

\* C12: in every tick that finds the process exited, exactly one start of the
\* process is attempted, as the last effect of the tick, whatever the update
\* check did (repository not opened, lookup failed, hashes equal or empty,
\* removal failed, re-clone failed or succeeded); the drift-check path is
\* not run in that tick.
C12_CrashAlwaysRestarts ==
    tick.live = "exited" =>
        /\ pc \in CrashPcs \cup {"loop_cond", "exit_err"}
        /\ pc \in CrashPcs => Count(log, StartOps) = 0
        /\ TickEnded =>
              Count(log, StartOps) = 1 /\ LastOp(log) \in StartOps

C12_Witness ==
    /\ tick.live = "exited" /\ tick.opened = "err"
    /\ pc = "loop_cond"
    /\ Ops(log) = <<"start_ok">>
    /\ procs[child.pid] = "alive"

\* the tick gave a reload up after a failed removal
RemovalAborted == DriftSeen /\ LastOp(log) = "remove_fail"

\* the tick gave a reload up after a failed re-clone
CloneAborted == DriftSeen /\ LastOp(log) \in {"clone_fail", "prepare_abort"}

\* C13 as stated: a reload given up after a failed removal leaves the old
\* process stopped and attempts no start, and the next tick goes through the
\* missing-checkout path of the drift check and through no other path.
C13_AsStated ==
    /\ RemovalAborted =>
          child.pid \notin Alive /\ Count(log, StartOps) = 0
    /\ prev = "remove_abort" =>
          pc \notin CrashPcs \cup {"remote", "stop", "remove", "reclone",
                                    "restart"}

\* C13: a reload given up after a failed removal attempts no start in that
\* tick and ends the tick; without a stop command the old process has been
\* killed and reaped, so the next tick finds it exited and goes through crash
\* recovery; the drift check (and its missing-checkout path) is run in the
\* next tick only if a stop command is configured and left the process alive.
C13_AfterFailedRemoval ==
    /\ RemovalAborted =>
          /\ pc = "loop_cond"
          /\ Count(log, StartOps) = 0
          /\ ~config.stop_command =>
                child.pid \notin Alive /\ child.status # "none"
    /\ prev = "remove_abort" =>
          /\ tick.live = "alive" => config.stop_command
          /\ pc \in DriftPcs => config.stop_command
          /\ (~config.stop_command /\ tick.live # "unset") =>
                pc \in CrashPcs \cup {"loop_cond", "exit_err"}

C13_Witness ==
    /\ prev = "remove_abort"
    /\ ~config.stop_command
    /\ tick.live = "exited"
    /\ pc = "crash_restart"

\* C14: a reload whose re-clone fails attempts no start in that tick, and the
\* supervisor keeps running afterwards: the tick that follows and finds the
\* process exited does not end the supervisor.
C14_CloneFailureKeepsRunning ==
    /\ CloneAborted => pc = "loop_cond" /\ Count(log, StartOps) = 0
    /\ (prev = "clone_abort" /\ tick.live = "exited") => pc # "exit_err"

\* C15: a tick that finds the process alive and cannot open the repository
\* calls prepare_repository exactly once and ends: no remote lookup, no
\* comparison, no stop command, no kill and no start, whatever the clone did.
C15_MissingCheckout ==
    (tick.live = "alive" /\ tick.opened = "err") =>
        /\ pc \in {"retry_clone", "loop_cond"}
        /\ tick.remote = "unset"
        /\ pc = "retry_clone" => log = <<>>
        /\ pc = "loop_cond" =>
              /\ Count(log, PrepareDone) = 1
              /\ \A i \in 1..Len(log) : log[i].op \in PrepareOps

C15_Witness ==
    /\ tick.live = "alive" /\ tick.opened = "err"
    /\ pc = "loop_cond"
    /\ LastOp(log) = "clone_ok"
    /\ procs[child.pid] = "alive"

\* C16: a tick that finds the process exited never runs the stop command or
\* kill-and-wait and never enters the drift check; inside the loop the stop
\* command and the kill are issued only in ticks that found the process
\* alive and saw two distinct non-empty hashes.
C16_CrashBeforeDrift ==
    /\ tick.live = "exited" =>
          /\ pc \notin DriftPcs
          /\ Count(log, StopOps \cup {"kill_wait"}) = 0
    /\ (pc \notin ShutdownPcs
            /\ Count(log, StopOps \cup {"kill_wait"}) > 0) => DriftSeen
    /\ pc \in {"crash_remove", "crash_clone"} => tick.live = "exited"

C16_Witness ==
    /\ tick.live = "exited" /\ tick.remote = "ok"
    /\ Distinct(tick.local_sha, tick.remote_sha)
    /\ pc = "crash_clone"
    /\ Ops(log) = <<"remove_ok">>

\* C17: from the installation of the signal handler on a start command is
\* configured, so the branch of crash recovery for a missing start command
\* is never taken, and a reload that re-cloned and went on to the next tick
\* has started a process.
C17_StartCommandInLoop ==
    /\ pc \in TickPcs \cup {"set_handler", "loop_cond", "shutdown", "exit_ok"}
          => config.start_command
    /\ (DriftSeen /\ pc = "loop_cond" /\ Count(log, {"clone_ok"}) > 0) =>
          /\ LastOp(log) = "start_ok"
          /\ procs[child.pid] \in {"alive"} \cup ExitStatuses

C17_Witness ==
    /\ pc = "crash_restart"
    /\ config.start_command
    /\ tick.live = "exited"

\* the step begins a removal of the checkout directory (remove_dir_all in
\* main or inside prepare_repository)
RemovalOps == RemoveOps \cup {"rm_existing", "rm_existing_fail"}

RemovalBegins == Count(log', RemovalOps) > Count(log, RemovalOps)

\* the step calls start_process
StartAttempt == Count(log', StartOps) > Count(log, StartOps)

\* C18: whenever a removal of the checkout directory begins, the current
\* child is not alive (it has exited or has been killed and reaped).
C18_RemovalOnlyWhenDead == [][RemovalBegins => child.pid \notin Alive]_vars

\* C19: whenever the supervisor has terminated from the tick loop (shutdown
\* flag seen, or an error returned inside a tick; the handler is installed
\* by then), no supervised process it started is left running.
C19_NoOrphanOnExit ==
    (pc \in {"exit_ok", "exit_err"} /\ handler) => Alive = {}

\* C20 as stated: every start of the supervised process is attempted only
\* with a completed checkout on disk.
C20_AsStated == [][StartAttempt => dir = "repo"]_vars

\* C20: only the start of the reload path is tied to a completed checkout: it
\* is attempted only directly after a successful re-clone of the same tick,
\* with the checkout on disk.  The initial start follows the initial clone
\* whatever its result, and the clone of the missing-checkout path leaves the
\* process handle and the processes as they are.
C20_StartsAndCheckout ==
    [][/\ StartAttempt =>
             /\ pc \in {"init_start", "crash_restart", "restart"}
             /\ pc = "restart" =>
                   /\ dir = "repo"
                   /\ LastOp(log) = "clone_ok"
                   /\ DriftSeen
       /\ (pc = "init_clone" /\ pc' # pc) => pc' = "init_start"
       /\ (pc = "retry_clone" /\ pc' # pc) =>
             (child' = child /\ procs' = procs)]_vars

C20_Witness ==
    /\ DriftSeen /\ ~config.stop_command
    /\ pc = "loop_cond"
    /\ dir = "repo"
    /\ Ops(log) = <<"kill_wait", "remove_ok", "clone_ok", "start_ok">>

====
